---- MODULE Spec2Model ----
(***************************************************************************)
(* A model of the two collection pipelines of the repository:              *)
(*   src/src/scraping/gdelt_scraping.py    (monthly windows, GDELT chunks, *)
(*                                          normalisation, deduplication)  *)
(*   src/src/scraping/youtube_scraping.py  (paginated video search,        *)
(*                                          paginated comment fetch)       *)
(* Datetimes are tuples <<year, month, day, hour, minute, second>>, dates  *)
(* are <<year, month, day>>, and character strings that the code parses    *)
(* or formats are sequences of one-character strings.                      *)
(***************************************************************************)
EXTENDS Integers, Sequences, FiniteSets, TLC

\* ------------------------------------------------------------------ bounds
\* the years the window generator is run on
FirstYear == 2023
LastYear == 2024
\* the most articles one GDELT response holds
MaxArticles == 1
\* the most pages on which the YouTube upstream returns a continuation token
MaxK == 1
\* the most items one page of search results or of comment threads holds
MaxPageItems == 2
\* the largest cap (max_videos_per_keyword, max_comments_per_video) of a run
MaxCap == 2

\* ---------------------------------------------------------------- calendar
\* datetime's proleptic Gregorian leap-year rule
IsLeap(y) == (y % 4 = 0 /\ y % 100 # 0) \/ y % 400 = 0

DaysInMonth(y, m) ==
    IF m = 2 THEN (IF IsLeap(y) THEN 29 ELSE 28)
    ELSE IF m \in {4, 6, 9, 11} THEN 30 ELSE 31

\* dt1 <= dt2 on datetimes (lexicographic on the six fields)
RECURSIVE LexLE(_, _, _)
LexLE(a, b, i) ==
    IF i > Len(a) THEN TRUE
    ELSE IF a[i] < b[i] THEN TRUE
    ELSE IF a[i] > b[i] THEN FALSE
    ELSE LexLE(a, b, i + 1)

DtLE(a, b) == LexLE(a, b, 1)

DtMin(a, b) == IF DtLE(a, b) THEN a ELSE b

\* dt - timedelta(seconds=1)
MinusOneSecond(dt) ==
    IF dt[6] > 0 THEN <<dt[1], dt[2], dt[3], dt[4], dt[5], dt[6] - 1>>
    ELSE IF dt[5] > 0 THEN <<dt[1], dt[2], dt[3], dt[4], dt[5] - 1, 59>>
    ELSE IF dt[4] > 0 THEN <<dt[1], dt[2], dt[3], dt[4] - 1, 59, 59>>
    ELSE IF dt[3] > 1 THEN <<dt[1], dt[2], dt[3] - 1, 23, 59, 59>>
    ELSE IF dt[2] > 1
         THEN <<dt[1], dt[2] - 1, DaysInMonth(dt[1], dt[2] - 1), 23, 59, 59>>
    ELSE <<dt[1] - 1, 12, 31, 23, 59, 59>>

\* dt - timedelta(days=1), for a dt at the first day of a month
MinusOneDay(dt) ==
    IF dt[3] > 1 THEN <<dt[1], dt[2], dt[3] - 1, dt[4], dt[5], dt[6]>>
    ELSE IF dt[2] > 1
         THEN <<dt[1], dt[2] - 1, DaysInMonth(dt[1], dt[2] - 1), dt[4], dt[5], dt[6]>>
    ELSE <<dt[1] - 1, 12, 31, dt[4], dt[5], dt[6]>>

\* dt + timedelta(seconds=1)
PlusOneSecond(dt) ==
    IF dt[6] < 59 THEN <<dt[1], dt[2], dt[3], dt[4], dt[5], dt[6] + 1>>
    ELSE IF dt[5] < 59 THEN <<dt[1], dt[2], dt[3], dt[4], dt[5] + 1, 0>>
    ELSE IF dt[4] < 23 THEN <<dt[1], dt[2], dt[3], dt[4] + 1, 0, 0>>
    ELSE IF dt[3] < DaysInMonth(dt[1], dt[2])
         THEN <<dt[1], dt[2], dt[3] + 1, 0, 0, 0>>
    ELSE IF dt[2] < 12 THEN <<dt[1], dt[2] + 1, 1, 0, 0, 0>>
    ELSE <<dt[1] + 1, 1, 1, 0, 0, 0>>

\* datetime.fromisoformat('YYYY-MM-DD'): midnight of that date
FromIsoDate(d) == <<d[1], d[2], d[3], 0, 0, 0>>

\* ------------------------------------------------- generate_monthly_ranges
\* the first day of the month after current's
NextMonth(current) ==
    IF current[2] = 12
    THEN <<current[1] + 1, 1, 1, current[4], current[5], current[6]>>
    ELSE <<current[1], current[2] + 1, 1, current[4], current[5], current[6]>>

\* a month end one day, not one second, before the next month
MonthEndDayDelta(next_month, end) ==
    DtMin(MinusOneDay(next_month), <<end[1], end[2], end[3], 23, 59, 59>>)

\* min(next_month - 1s, end.replace(hour=23, minute=59, second=59))
MonthEnd(next_month, end) ==
    DtMin(MinusOneSecond(next_month), <<end[1], end[2], end[3], 23, 59, 59>>)

\* current.replace(hour=0, minute=0, second=0)
MonthStart(current) == <<current[1], current[2], current[3], 0, 0, 0>>

\* the while loop of generate_monthly_ranges
RECURSIVE MonthlyLoop(_, _, _)
MonthlyLoop(current, end, acc) ==
    IF DtLE(current, end)
    THEN LET next_month == NextMonth(current)
             month_end == MonthEnd(next_month, end)
             month_start == MonthStart(current)
         IN  MonthlyLoop(next_month, end,
                         Append(acc, [start |-> month_start, end |-> month_end]))
    ELSE acc

generate_monthly_ranges(sd, ed) ==
    LET first == FromIsoDate(sd)
        current == <<first[1], first[2], 1, first[4], first[5], first[6]>>
        end == FromIsoDate(ed)
    IN  MonthlyLoop(current, end, <<>>)

\* ------------------------------------------------------------ char strings
Digits == {"0", "1", "2", "3", "4", "5", "6", "7", "8", "9"}

DigitVal(c) ==
    CASE c = "0" -> 0 [] c = "1" -> 1 [] c = "2" -> 2 [] c = "3" -> 3
      [] c = "4" -> 4 [] c = "5" -> 5 [] c = "6" -> 6 [] c = "7" -> 7
      [] c = "8" -> 8 [] c = "9" -> 9

DigitChar(n) ==
    CASE n = 0 -> "0" [] n = 1 -> "1" [] n = 2 -> "2" [] n = 3 -> "3"
      [] n = 4 -> "4" [] n = 5 -> "5" [] n = 6 -> "6" [] n = 7 -> "7"
      [] n = 8 -> "8" [] n = 9 -> "9"

\* Python's None, as a value comparable with character strings
None == <<"None">>

\* ------------------------------------------------ normalize_published_time
\* the alternatives of _strptime's regex for one directive, tried on the
\* n characters of s that start at p
MatchField(f, s, p, n) ==
    /\ p + n - 1 <= Len(s)
    /\ IF n = 2
       THEN LET a == s[p]
                b == s[p + 1]
            IN  CASE f = "m" -> \/ (a = "1" /\ b \in {"0", "1", "2"})
                                \/ (a = "0" /\ b \in Digits \ {"0"})
                  [] f = "d" -> \/ (a = "3" /\ b \in {"0", "1"})
                                \/ (a \in {"1", "2"} /\ b \in Digits)
                                \/ (a = "0" /\ b \in Digits \ {"0"})
                                \/ (a = " " /\ b \in Digits \ {"0"})
                  [] f = "H" -> \/ (a = "2" /\ b \in {"0", "1", "2", "3"})
                                \/ (a \in {"0", "1"} /\ b \in Digits)
                  [] f = "M" -> a \in {"0", "1", "2", "3", "4", "5"} /\ b \in Digits
                  [] f = "S" -> \/ (a = "6" /\ b \in {"0", "1"})
                                \/ (a \in {"0", "1", "2", "3", "4", "5"} /\ b \in Digits)
       ELSE IF f \in {"m", "d"} THEN s[p] \in Digits \ {"0"} ELSE s[p] \in Digits

\* the five directives after %Y, in format order
FieldNames == <<"m", "d", "H", "M", "S">>

\* no way to match the rest of the format
NoMatch == <<0>>

\* The regex engine tries, for directive i at position p, the two-character
\* alternatives before the one-character one and backtracks depth first when
\* the directives after it find no match: the lengths given to directives
\* i..5 by the first match, or NoMatch.
RECURSIVE MatchFrom(_, _, _)
MatchFrom(s, p, i) ==
    IF i > 5 THEN <<>>
    ELSE LET two == IF MatchField(FieldNames[i], s, p, 2)
                    THEN MatchFrom(s, p + 2, i + 1) ELSE NoMatch
         IN  IF two # NoMatch THEN <<2>> \o two
             ELSE LET one == IF MatchField(FieldNames[i], s, p, 1)
                             THEN MatchFrom(s, p + 1, i + 1) ELSE NoMatch
                  IN  IF one # NoMatch THEN <<1>> \o one ELSE NoMatch

\* where directive i starts when the directives have these lengths
RECURSIVE FieldPos(_, _)
FieldPos(lens, i) == IF i = 1 THEN 5 ELSE FieldPos(lens, i - 1) + lens[i - 1]

\* the integer a matched directive stands for (" 7" is 7)
FieldVal(s, p, n) ==
    IF n = 1 THEN DigitVal(s[p])
    ELSE (IF s[p] = " " THEN 0 ELSE 10 * DigitVal(s[p])) + DigitVal(s[p + 1])

\* datetime.strptime(s, "%Y%m%d%H%M%S"): [ok |-> FALSE] stands for ValueError
Strptime(s) ==
    IF Len(s) < 4 \/ \E i \in 1..4 : s[i] \notin Digits THEN [ok |-> FALSE]
    ELSE LET lens == MatchFrom(s, 5, 1)
         IN  IF lens = NoMatch THEN [ok |-> FALSE]
             ELSE IF FieldPos(lens, 6) - 1 # Len(s)
                  THEN [ok |-> FALSE]                 \* unconverted data remains
             ELSE LET year == 1000 * DigitVal(s[1]) + 100 * DigitVal(s[2])
                                + 10 * DigitVal(s[3]) + DigitVal(s[4])
                      v == [i \in 1..5 |-> FieldVal(s, FieldPos(lens, i), lens[i])]
                  IN  IF year < 1 \/ v[2] > DaysInMonth(year, v[1]) \/ v[5] > 59
                      THEN [ok |-> FALSE]         \* datetime() rejects the fields
                      ELSE [ok |-> TRUE, dt |-> <<year, v[1], v[2], v[3], v[4], v[5]>>]

TwoDigits(n) == <<DigitChar(n \div 10), DigitChar(n % 10)>>

\* dt.strftime("%Y-%m-%d %H:%M:%S"), for the four-digit years the model uses
Strftime(dt) ==
    <<DigitChar(dt[1] \div 1000), DigitChar((dt[1] \div 100) % 10),
      DigitChar((dt[1] \div 10) % 10), DigitChar(dt[1] % 10)>>
    \o <<"-">> \o TwoDigits(dt[2]) \o <<"-">> \o TwoDigits(dt[3]) \o <<" ">>
    \o TwoDigits(dt[4]) \o <<":">> \o TwoDigits(dt[5]) \o <<":">> \o TwoDigits(dt[6])

normalize_published_time(seendate_str) ==
    IF seendate_str = <<>> THEN None
    ELSE LET r == Strptime(seendate_str)
         IN  IF r.ok THEN Strftime(r.dt) ELSE None

\* "20230615120000"
SeenValid == <<"2", "0", "2", "3", "0", "6", "1", "5", "1", "2", "0", "0", "0", "0">>
\* "2023615120000": thirteen characters that the regex still splits
SeenShort == <<"2", "0", "2", "3", "6", "1", "5", "1", "2", "0", "0", "0", "0">>
\* "20231345000000": no thirteenth month
SeenBadMonth == <<"2", "0", "2", "3", "1", "3", "4", "5", "0", "0", "0", "0", "0", "0">>
\* "" (also what art.get("seendate", "") gives for a missing field)
SeenEmpty == <<>>

\* ------------------------------------------------------------ fetch_gdelt_chunk
\* the keyword list of a run
KEYWORDS == <<"x", "y">>

\* The entries an "articles" array holds: JSON objects with a url and a
\* seendate, and one entry that is not an object (a bare string).
GdeltArticles ==
    { [obj |-> TRUE, url |-> "a", seendate |-> SeenValid],
      [obj |-> TRUE, url |-> "a", seendate |-> SeenBadMonth],
      [obj |-> TRUE, url |-> "b", seendate |-> SeenShort],
      [obj |-> TRUE, url |-> "b", seendate |-> SeenEmpty],
      [obj |-> FALSE, url |-> "", seendate |-> <<>>] }

\* sequences over S of length at most n
SeqsUpTo(S, n) == UNION {[1..k -> S] : k \in 0..n}

\* What the endpoint can answer: a request that raises (network error,
\* non-2xx status), an empty body, a body that is not JSON, a JSON object
\* without "articles", or a JSON object with an "articles" array.
GdeltResponses ==
    { [kind |-> k, articles |-> <<>>] :
          k \in {"request_error", "empty_body", "bad_json", "no_articles_key"} }
    \cup { [kind |-> "articles", articles |-> a] : a \in SeqsUpTo(GdeltArticles, MaxArticles) }

\* the record built from one article (lines 106-118); title, source_domain,
\* language, country and tone are copied the same way and left out
ArticleRecord(art, keyword) ==
    [url |-> art.url, published_at |-> art.seendate, keyword |-> keyword, source |-> "gdelt"]

\* fetch_gdelt_chunk: [raised |-> TRUE] when art.get fails on an entry that is
\* not an object, which happens outside the try block
fetch_gdelt_chunk(keyword, resp) ==
    IF resp.kind # "articles" THEN [raised |-> FALSE, records |-> <<>>]
    ELSE IF \E i \in 1..Len(resp.articles) : ~resp.articles[i].obj
         THEN [raised |-> TRUE, records |-> <<>>]
    ELSE [raised |-> FALSE,
          records |-> [i \in 1..Len(resp.articles) |->
                          ArticleRecord(resp.articles[i], keyword)]]

\* -------------------------------------------------------------- scrape_gdelt
\* df["published_at_iso"] = df["published_at"].apply(normalize_published_time)
AddPublishedAtIso(rows) ==
    [i \in 1..Len(rows) |->
        [url |-> rows[i].url, published_at |-> rows[i].published_at,
         keyword |-> rows[i].keyword, source |-> rows[i].source,
         published_at_iso |-> normalize_published_time(rows[i].published_at)]]

SameKey(r1, r2) == r1.url = r2.url /\ r1.keyword = r2.keyword

RECURSIVE SelectRows(_, _, _)
SelectRows(rows, keep, i) ==
    IF i > Len(rows) THEN <<>>
    ELSE (IF i \in keep THEN <<rows[i]>> ELSE <<>>) \o SelectRows(rows, keep, i + 1)

\* deduplication that keeps the last row of each key
DropDuplicatesKeepLast(rows) ==
    SelectRows(rows,
               {i \in 1..Len(rows) :
                    ~\E j \in (i + 1)..Len(rows) : SameKey(rows[j], rows[i])}, 1)

\* df.drop_duplicates(subset=["url", "keyword"]): pandas' default keep="first"
DropDuplicates(rows) ==
    SelectRows(rows,
               {i \in 1..Len(rows) : ~\E j \in 1..(i - 1) : SameKey(rows[j], rows[i])}, 1)

\* a sleep that is taken only when the chunk held articles
SleepsOnlyAfterArticles(chunk_records) == chunk_records # <<>>

\* whether time.sleep (line 178) runs after a chunk: it is outside the if
SleepsAfterChunk(chunk_records) == TRUE

\* ------------------------------------------------------------ the upstream
\* An upstream of the YouTube API returns a continuation token on its first K
\* pages and omits it on page K + 1; an Endless upstream returns one on every
\* page (a token that leads back to the page it came with).
Endless == 0 - 1

UpKs == (0..MaxK) \cup {Endless}

\* the page a request with this pageToken is answered with (None: the first)
PageOf(token) == IF token = 0 THEN 1 ELSE token

\* response.get("nextPageToken") of that page: 0 stands for None
NextToken(page, K) ==
    IF K = Endless THEN page
    ELSE IF page <= K THEN page + 1 ELSE 0

\* the requests of one scope are counted up to ReqLimit, which no upstream
\* with K <= MaxK reaches
ReqLimit == MaxK + 2

CountReq(n) == IF n < ReqLimit THEN n + 1 ELSE n

\* -------------------------------------------------- the pagination loops
\* a loop test that lets the count pass the cap
LoopContinuesPastCap(count, cap) == count <= cap

\* while collected < max_videos_per_keyword / while fetched < max_comments
LoopContinues(count, cap) == count < cap

\* a loop that asks again for the first page when the token is missing
NeverBreaksOnToken(token) == FALSE

\* if not next_page_token: break
BreaksOnNoToken(token) == token = 0

\* an except clause that goes round the loop again
RetriesAfterFailure(end_pc, loop_pc) == loop_pc

\* except Exception: ... break (lines 47-49 and 114-116): where control goes
AfterFailure(end_pc, loop_pc) == end_pc

\* the first n elements of s
Truncate(s, n) == IF Len(s) <= n THEN s ELSE SubSeq(s, 1, n)

\* the last n elements of s
LastN(s, n) == SubSeq(s, Len(s) - n + 1, Len(s))

\* ------------------------------------------------------------ search_videos
\* items of a search response: well formed, without id.videoId (a channel or
\* playlist hit), or without snippet
SearchItems ==
    { [shape |-> "ok", videoId |-> "v1"],
      [shape |-> "ok", videoId |-> "v2"],
      [shape |-> "no_videoId", videoId |-> ""],
      [shape |-> "no_snippet", videoId |-> "v1"] }

\* request.execute() either raises or returns a page of items
SearchResponses ==
    { [fails |-> TRUE, items |-> <<>>] }
    \cup { [fails |-> FALSE, items |-> it] : it \in SeqsUpTo(SearchItems, MaxPageItems) }

\* the for loop over response.get("items", []) (lines 51-65); video_title,
\* channel and video_published_at are copied with .get defaults and left out
RECURSIVE ProcessSearchItems(_, _, _, _, _, _)
ProcessSearchItems(items, i, n, cap, keyword, acc) ==
    IF i > Len(items) THEN [raised |-> FALSE, videos |-> acc, collected |-> n]
    ELSE IF items[i].shape # "ok"          \* item["id"]["videoId"], item["snippet"]
         THEN [raised |-> TRUE, videos |-> acc, collected |-> n]
    ELSE LET acc2 == Append(acc, [video_id |-> items[i].videoId, keyword |-> keyword])
         IN  IF n + 1 >= cap
             THEN [raised |-> FALSE, videos |-> acc2, collected |-> n + 1]
             ELSE ProcessSearchItems(items, i + 1, n + 1, cap, keyword, acc2)

\* the video ids a page offers, in page order
SearchOffered(items) == [i \in 1..Len(items) |-> items[i].videoId]

\* a deduplication that keeps each video's first discovery
UniqueVideosKeepFirst(vs) ==
    SelectRows(vs, {i \in 1..Len(vs) :
                        ~\E j \in 1..(i - 1) : vs[j].video_id = vs[i].video_id}, 1)

\* {v["video_id"]: v for v in all_videos}.values(): a dict keeps the position
\* of a key's first insertion and the value of its last
UniqueVideos(vs) ==
    LET firsts == SelectRows(vs, {i \in 1..Len(vs) :
                        ~\E j \in 1..(i - 1) : vs[j].video_id = vs[i].video_id}, 1)
        last(id) == CHOOSE i \in 1..Len(vs) :
                        /\ vs[i].video_id = id
                        /\ ~\E j \in (i + 1)..Len(vs) : vs[j].video_id = id
    IN  [k \in 1..Len(firsts) |-> vs[last(firsts[k].video_id)]]

\* ------------------------------------------------- fetch_comments_for_video
\* datetime.fromisoformat(s.replace("Z", "+00:00")) on the publishedAt values
\* the upstream sends: ok = FALSE stands for ValueError, aware tells whether
\* the result carries a UTC offset
FromIsoformatZ(s) ==
    CASE s = "2023-06-15T12:00:00Z" ->
             [ok |-> TRUE, aware |-> TRUE, dt |-> <<2023, 6, 15, 12, 0, 0>>]
      [] s = "2021-03-01T08:30:00Z" ->
             [ok |-> TRUE, aware |-> TRUE, dt |-> <<2021, 3, 1, 8, 30, 0>>]
      [] s = "2023-06-15T12:00:00" ->
             [ok |-> TRUE, aware |-> FALSE, dt |-> <<2023, 6, 15, 12, 0, 0>>]
      [] OTHER -> [ok |-> FALSE, aware |-> FALSE, dt |-> <<>>]

\* int(comment_likes): ok = FALSE stands for ValueError or TypeError
IntOf(likes) ==
    CASE likes = "3" -> [ok |-> TRUE, val |-> 3]
      [] likes = "12" -> [ok |-> TRUE, val |-> 12]
      [] OTHER -> [ok |-> FALSE, val |-> 0]

\* items of a commentThreads response
CommentItems ==
    { [shape |-> "ok", publishedAt |-> "2023-06-15T12:00:00Z", likeCount |-> "3"],
      [shape |-> "ok", publishedAt |-> "2021-03-01T08:30:00Z", likeCount |-> "3"],
      [shape |-> "ok", publishedAt |-> "not-a-date", likeCount |-> "3"],
      [shape |-> "ok", publishedAt |-> "2023-06-15T12:00:00", likeCount |-> "3"],
      [shape |-> "no_snippet", publishedAt |-> "", likeCount |-> "3"],
      [shape |-> "ok", publishedAt |-> "2023-06-15T12:00:00Z", likeCount |-> "abc"],
      [shape |-> "ok", publishedAt |-> "2021-03-01T08:30:00Z", likeCount |-> "abc"] }

CommentResponses ==
    { [fails |-> TRUE, items |-> <<>>] }
    \cup { [fails |-> FALSE, items |-> it] : it \in SeqsUpTo(CommentItems, MaxPageItems) }

\* comment_dt < start_date or comment_dt > end_date (line 134), both bounds
\* timezone-aware UTC datetimes
OutOfRange(dt, sd, ed) ==
    \/ ~DtLE(FromIsoDate(sd), dt)
    \/ ~DtLE(dt, <<ed[1], ed[2], ed[3], 23, 59, 59>>)

\* a comment loop that keeps a comment whose timestamp does not parse
KeepsUnparsed(parsed) == FALSE

\* except Exception: continue (lines 130-132)
SkipsUnparsed(parsed) == ~parsed.ok

\* the for loop over response.get("items", []) (lines 118-152); page and i
\* make the comment's id; video_title, channel, video_published_at and
\* comment_text are copied and left out
RECURSIVE ProcessCommentItems(_, _, _, _, _, _, _, _, _)
ProcessCommentItems(items, i, n, cap, video, page, sd, ed, acc) ==
    IF i > Len(items) THEN [raised |-> FALSE, comments |-> acc, fetched |-> n]
    ELSE LET it == items[i]
             parsed == FromIsoformatZ(it.publishedAt)
             raise == [raised |-> TRUE, comments |-> acc, fetched |-> n]
             skip == ProcessCommentItems(items, i + 1, n, cap, video, page, sd, ed, acc)
         IN  IF it.shape # "ok" THEN raise       \* item["snippet"]["topLevelComment"]
             ELSE IF SkipsUnparsed(parsed) THEN skip
             ELSE IF parsed.ok /\ ~parsed.aware THEN raise  \* naive < aware: TypeError
             ELSE IF parsed.ok /\ OutOfRange(parsed.dt, sd, ed) THEN skip
             ELSE IF ~IntOf(it.likeCount).ok THEN raise     \* int(comment_likes)
             ELSE LET acc2 == Append(acc,
                                 [video_id |-> video.video_id,
                                  comment_id |-> <<page, i>>,
                                  comment_likes |-> IntOf(it.likeCount).val,
                                  comment_published_at |-> it.publishedAt,
                                  keyword |-> video.keyword])
                  IN  IF n + 1 >= cap
                      THEN [raised |-> FALSE, comments |-> acc2, fetched |-> n + 1]
                      ELSE ProcessCommentItems(items, i + 1, n + 1, cap, video, page,
                                               sd, ed, acc2)

\* the ids of the items of a page that parse and lie in [start, end]
CommentOffered(items, page, sd, ed) ==
    LET good(it) == /\ it.shape = "ok"
                    /\ FromIsoformatZ(it.publishedAt).ok
                    /\ FromIsoformatZ(it.publishedAt).aware
                    /\ ~OutOfRange(FromIsoformatZ(it.publishedAt).dt, sd, ed)
        ids == [i \in 1..Len(items) |-> <<page, i>>]
    IN  SelectRows(ids, {i \in 1..Len(items) : good(items[i])}, 1)

Years == FirstYear..LastYear

\* the calendar dates the window generator is run on
Dates ==
    {d \in Years \X (1..12) \X {1, 2, 15, 28, 29, 30, 31} :
        d[3] <= DaysInMonth(d[1], d[2])}

DateLE(a, b) == LexLE(a, b, 1)

\* the global date ranges scrape_gdelt is run on: one window, two windows
GdeltDateRanges ==
    { <<(<<2023, 12, 15>>), (<<2023, 12, 20>>)>>,
      <<(<<2023, 12, 15>>), (<<2024, 1, 10>>)>> }

\* the global date range scrape_youtube_comments is run on
YoutubeStart == <<2023, 1, 1>>
YoutubeEnd == <<2023, 12, 31>>

Caps == 1..MaxCap

VARIABLES
    \* generate_monthly_ranges, run on its own
    wpc,            \* "idle", "call" or "done"
    start_date,     \* start_date / start_date_str of whichever entry point runs
    end_date,       \* end_date / end_date_str
    ranges,         \* the list generate_monthly_ranges returned
    \* scrape_gdelt
    gpc,            \* "idle", "start", "fetch", "sleep" (or "advance", were the
                    \* sleep left out), "finish", "done", "crashed"
    date_ranges,    \* date_ranges
    gk,             \* index of keyword in keywords
    gd,             \* index of dr in date_ranges
    all_records,    \* all_records
    df,             \* the frame written to the CSV
    \* scrape_youtube_comments, with search_videos and fetch_comments_for_video
    ypc,            \* "idle", "search", "kw_end", "dedup", "searched", "next_video",
                    \* "fetch", "page_sleep", "video_end", "finish", "done", "crashed"
    max_videos_per_keyword,
    max_comments_per_video,
    yk,             \* index of keyword in keywords
    all_videos,     \* all_videos of search_videos
    collected,      \* collected
    next_page_token, \* next_page_token of the running loop; 0 is None
    videos,         \* the list search_videos returned
    yv,             \* index of video in videos
    comments,       \* comments of fetch_comments_for_video
    fetched,        \* fetched
    all_comments,   \* all_comments
    written,        \* whether the run wrote its CSV
    \* the upstream of the running pagination loop, and the run's history
    upK,            \* on how many pages the upstream returns a token (or Endless)
    reqs,           \* requests issued in the running loop
    failed,         \* whether a request of the running loop raised
    offered,        \* what the pages answered so far offered, in page order
    fetch_calls,    \* the video ids fetch_comments_for_video was called with
    unslept         \* whether a request was issued and no time.sleep ran since

wvars == <<wpc, ranges>>
yvars_but_pc == <<max_videos_per_keyword, max_comments_per_video, yk, all_videos,
                  collected, next_page_token, videos, yv, comments, fetched,
                  all_comments, upK, reqs, failed, offered, fetch_calls>>
gvars == <<gpc, date_ranges, gk, gd, all_records, df>>
yvars == <<ypc, max_videos_per_keyword, max_comments_per_video, yk, all_videos,
           collected, next_page_token, videos, yv, comments, fetched, all_comments,
           upK, reqs, failed, offered, fetch_calls>>
vars == <<wvars, gvars, yvars, start_date, end_date, written, unslept>>

IdleW == wpc = "idle" /\ ranges = <<>>

IdleG ==
    /\ gpc = "idle" /\ date_ranges = <<>> /\ gk = 0 /\ gd = 0
    /\ all_records = <<>> /\ df = <<>>

IdleY ==
    /\ ypc = "idle" /\ max_videos_per_keyword = 0 /\ max_comments_per_video = 0
    /\ yk = 0 /\ all_videos = <<>> /\ collected = 0 /\ next_page_token = 0
    /\ videos = <<>> /\ yv = 0 /\ comments = <<>> /\ fetched = 0
    /\ all_comments = <<>> /\ upK = 0 /\ reqs = 0 /\ failed = FALSE
    /\ offered = <<>> /\ fetch_calls = <<>>

\* ------------------------------------------- generate_monthly_ranges alone
InitW ==
    /\ wpc = "call"
    /\ start_date \in Dates
    /\ end_date \in Dates
    /\ ranges = <<>>
    /\ written = FALSE /\ unslept = FALSE
    /\ IdleG /\ IdleY

GenerateRanges ==
    /\ wpc = "call"
    /\ ranges' = generate_monthly_ranges(start_date, end_date)
    /\ wpc' = "done"
    /\ UNCHANGED <<gvars, yvars, start_date, end_date, written, unslept>>

NextW == GenerateRanges

SpecW == InitW /\ [][NextW]_vars

\* -------------------------------------------------------------- scrape_gdelt
InitG ==
    /\ gpc = "start"
    /\ \E r \in GdeltDateRanges : start_date = r[1] /\ end_date = r[2]
    /\ date_ranges = <<>> /\ gk = 0 /\ gd = 0
    /\ all_records = <<>> /\ df = <<>>
    /\ written = FALSE /\ unslept = FALSE
    /\ IdleW /\ IdleY

\* lines 153-163: the windows, and the first keyword and window
StartGdelt ==
    /\ gpc = "start"
    /\ date_ranges' = generate_monthly_ranges(start_date, end_date)
    /\ gk' = 1 /\ gd' = 1
    /\ gpc' = IF Len(KEYWORDS) = 0 \/ date_ranges' = <<>> THEN "finish" ELSE "fetch"
    /\ UNCHANGED <<all_records, df, wvars, yvars, start_date, end_date, written, unslept>>

\* lines 165-176: one request, its records appended to all_records
FetchChunk ==
    /\ gpc = "fetch"
    /\ \E resp \in GdeltResponses :
          LET got == fetch_gdelt_chunk(KEYWORDS[gk], resp)
          IN  IF got.raised
              THEN gpc' = "crashed" /\ UNCHANGED all_records
              ELSE /\ all_records' = all_records \o got.records
                   /\ gpc' = IF SleepsAfterChunk(got.records) THEN "sleep" ELSE "advance"
    /\ unslept' = TRUE
    /\ UNCHANGED <<date_ranges, gk, gd, df, wvars, yvars, start_date, end_date, written>>

\* line 178 and the two for statements: sleep, then the next window or keyword
SleepAndAdvance ==
    /\ gpc \in {"sleep", "advance"}
    /\ unslept' = IF gpc = "sleep" THEN FALSE ELSE unslept
    /\ IF gd < Len(date_ranges)
       THEN gd' = gd + 1 /\ UNCHANGED gk /\ gpc' = "fetch"
       ELSE IF gk < Len(KEYWORDS)
            THEN gk' = gk + 1 /\ gd' = 1 /\ gpc' = "fetch"
            ELSE UNCHANGED <<gk, gd>> /\ gpc' = "finish"
    /\ UNCHANGED <<date_ranges, all_records, df, wvars, yvars, start_date, end_date, written>>

\* lines 180-201: nothing collected, or normalise, deduplicate and write
FinishGdelt ==
    /\ gpc = "finish"
    /\ IF all_records = <<>>
       THEN UNCHANGED <<df, written>>
       ELSE /\ df' = DropDuplicates(AddPublishedAtIso(all_records))
            /\ written' = TRUE
    /\ gpc' = "done"
    /\ UNCHANGED <<date_ranges, gk, gd, all_records, wvars, yvars, start_date, end_date, unslept>>

NextG == StartGdelt \/ FetchChunk \/ SleepAndAdvance \/ FinishGdelt

\* --------------------------------------------------- scrape_youtube_comments
InitY ==
    /\ ypc = "search"
    /\ start_date = YoutubeStart /\ end_date = YoutubeEnd
    /\ max_videos_per_keyword \in Caps
    /\ max_comments_per_video \in Caps
    /\ yk = 1 /\ all_videos = <<>> /\ collected = 0 /\ next_page_token = 0
    /\ videos = <<>> /\ yv = 0 /\ comments = <<>> /\ fetched = 0
    /\ all_comments = <<>>
    /\ upK \in UpKs /\ reqs = 0 /\ failed = FALSE /\ offered = <<>>
    /\ fetch_calls = <<>>
    /\ written = FALSE /\ unslept = FALSE
    /\ IdleW /\ IdleG

\* lines 33-69: one turn of the while loop of search_videos
SearchPage ==
    /\ ypc = "search"
    /\ \E resp \in SearchResponses :
          LET page == PageOf(next_page_token)
              token == NextToken(page, upK)
              got == ProcessSearchItems(resp.items, 1, collected,
                                        max_videos_per_keyword, KEYWORDS[yk], <<>>)
          IN  IF resp.fails
              THEN /\ failed' = TRUE
                   /\ ypc' = AfterFailure("kw_end", "search")
                   /\ UNCHANGED <<all_videos, collected, next_page_token, offered>>
              ELSE IF got.raised
              THEN /\ ypc' = "crashed"
                   /\ UNCHANGED <<all_videos, collected, next_page_token, offered, failed>>
              ELSE /\ all_videos' = all_videos \o got.videos
                   /\ collected' = got.collected
                   /\ next_page_token' = token
                   /\ offered' = offered \o SearchOffered(resp.items)
                   /\ ypc' = IF BreaksOnNoToken(token) THEN "kw_end"
                             ELSE IF LoopContinues(got.collected, max_videos_per_keyword)
                                  THEN "search" ELSE "kw_end"
                   /\ UNCHANGED failed
    /\ reqs' = CountReq(reqs)
    /\ unslept' = TRUE
    /\ UNCHANGED <<max_videos_per_keyword, max_comments_per_video, yk, videos, yv,
                   comments, fetched, all_comments, upK, fetch_calls,
                   wvars, gvars, start_date, end_date, written>>

\* line 71 and lines 28-31: the next keyword, met by an upstream of its own
EndKeyword ==
    /\ ypc = "kw_end"
    /\ IF yk < Len(KEYWORDS)
       THEN /\ yk' = yk + 1
            /\ collected' = 0 /\ next_page_token' = 0
            /\ upK' \in UpKs /\ reqs' = 0 /\ failed' = FALSE /\ offered' = <<>>
            /\ ypc' = "search"
       ELSE /\ ypc' = "dedup"
            /\ UNCHANGED <<yk, collected, next_page_token, upK, reqs, failed, offered>>
    /\ UNCHANGED <<max_videos_per_keyword, max_comments_per_video, all_videos, videos,
                   yv, comments, fetched, all_comments, fetch_calls,
                   wvars, gvars, start_date, end_date, written, unslept>>

\* lines 73-77: search_videos returns the unique videos
ReturnVideos ==
    /\ ypc = "dedup"
    /\ videos' = UniqueVideos(all_videos)
    /\ ypc' = "searched"
    /\ UNCHANGED <<max_videos_per_keyword, max_comments_per_video, yk, all_videos,
                   collected, next_page_token, yv, comments, fetched, all_comments,
                   upK, reqs, failed, offered, fetch_calls,
                   wvars, gvars, start_date, end_date, written, unslept>>

\* lines 196-204: back in scrape_youtube_comments, the locals of search_videos gone
StartComments ==
    /\ ypc = "searched"
    /\ all_videos' = <<>> /\ collected' = 0 /\ next_page_token' = 0
    /\ reqs' = 0 /\ failed' = FALSE /\ offered' = <<>> /\ upK' = 0
    /\ all_comments' = <<>>
    /\ yv' = 1
    /\ ypc' = "next_video"
    /\ UNCHANGED <<max_videos_per_keyword, max_comments_per_video, yk, videos,
                   comments, fetched, fetch_calls,
                   wvars, gvars, start_date, end_date, written, unslept>>

\* lines 206-207 and 91-101: the call of fetch_comments_for_video for the next
\* video, met by an upstream of its own
StartVideo ==
    /\ ypc = "next_video"
    /\ IF yv <= Len(videos)
       THEN /\ fetch_calls' = Append(fetch_calls, videos[yv].video_id)
            /\ comments' = <<>> /\ fetched' = 0 /\ next_page_token' = 0
            /\ upK' \in UpKs /\ reqs' = 0 /\ failed' = FALSE /\ offered' = <<>>
            /\ ypc' = "fetch"
       ELSE /\ ypc' = "finish"
            /\ UNCHANGED <<fetch_calls, comments, fetched, next_page_token, upK, reqs,
                           failed, offered>>
    /\ UNCHANGED <<max_videos_per_keyword, max_comments_per_video, yk, all_videos,
                   collected, videos, yv, all_comments,
                   wvars, gvars, start_date, end_date, written, unslept>>

\* lines 103-156: one turn of the while loop of fetch_comments_for_video, up to
\* the sleep
CommentPage ==
    /\ ypc = "fetch"
    /\ \E resp \in CommentResponses :
          LET page == PageOf(next_page_token)
              token == NextToken(page, upK)
              got == ProcessCommentItems(resp.items, 1, fetched, max_comments_per_video,
                                         videos[yv], page, start_date, end_date, comments)
          IN  IF resp.fails
              THEN /\ failed' = TRUE
                   /\ ypc' = AfterFailure("video_end", "fetch")
                   /\ UNCHANGED <<comments, fetched, next_page_token, offered>>
              ELSE IF got.raised
              THEN /\ ypc' = "crashed"
                   /\ UNCHANGED <<comments, fetched, next_page_token, offered, failed>>
              ELSE /\ comments' = got.comments
                   /\ fetched' = got.fetched
                   /\ next_page_token' = token
                   /\ offered' = offered \o CommentOffered(resp.items, page,
                                                           start_date, end_date)
                   /\ ypc' = IF BreaksOnNoToken(token) THEN "video_end" ELSE "page_sleep"
                   /\ UNCHANGED failed
    /\ reqs' = CountReq(reqs)
    /\ unslept' = TRUE
    /\ UNCHANGED <<max_videos_per_keyword, max_comments_per_video, yk, all_videos,
                   collected, videos, yv, all_comments, upK, fetch_calls,
                   wvars, gvars, start_date, end_date, written>>

\* line 158, then the while test of line 103
SleepPage ==
    /\ ypc = "page_sleep"
    /\ unslept' = FALSE
    /\ ypc' = IF LoopContinues(fetched, max_comments_per_video) THEN "fetch"
              ELSE "video_end"
    /\ UNCHANGED <<yvars_but_pc, wvars, gvars, start_date, end_date, written>>

\* lines 160-161 and 214: the comments of the video join all_comments
EndVideo ==
    /\ ypc = "video_end"
    /\ all_comments' = all_comments \o comments
    /\ yv' = yv + 1
    /\ ypc' = "next_video"
    /\ UNCHANGED <<max_videos_per_keyword, max_comments_per_video, yk, all_videos,
                   collected, next_page_token, videos, comments, fetched,
                   upK, reqs, failed, offered, fetch_calls,
                   wvars, gvars, start_date, end_date, written, unslept>>

\* lines 216-223: nothing collected, or the CSV is written
FinishYoutube ==
    /\ ypc = "finish"
    /\ written' = (all_comments # <<>>)
    /\ ypc' = "done"
    /\ UNCHANGED <<yvars_but_pc, wvars, gvars, start_date, end_date, unslept>>

NextY ==
    \/ SearchPage \/ EndKeyword \/ ReturnVideos \/ StartComments
    \/ StartVideo \/ CommentPage \/ SleepPage \/ EndVideo \/ FinishYoutube

\* ------------------------------------------------------------------ the runs
\* a run of either pipeline
Init == InitG \/ InitY

Next == NextG \/ NextY

Spec == Init /\ [][Next]_vars

\* the video pipeline alone, which being sequential code always takes its next
\* step
FairSpecY == InitY /\ [][NextY]_vars /\ WF_vars(NextY)

\* the number of calendar months a range of dates touches
MonthsTouched(sd, ed) == (ed[1] * 12 + ed[2]) - (sd[1] * 12 + sd[2]) + 1

\* C1: for start_date <= end_date the first chunk starts at start_date
\* 00:00:00 and the last chunk ends at end_date 23:59:59; a range inside one
\* calendar month gives exactly the one chunk [start 00:00:00, end 23:59:59].
C1_FirstLastMatchGlobal ==
    (wpc = "done" /\ DateLE(start_date, end_date)) =>
        /\ Len(ranges) >= 1
        /\ ranges[1].start = FromIsoDate(start_date)
        /\ ranges[Len(ranges)].end =
               <<end_date[1], end_date[2], end_date[3], 23, 59, 59>>
        /\ (MonthsTouched(start_date, end_date) = 1 => Len(ranges) = 1)

\* C2: for start_date <= end_date touching N calendar months there are
\* exactly N chunks, each with start <= end, and every chunk after the first
\* starts one second after the previous chunk ends.
C2_ContiguousMonthlyChunks ==
    (wpc = "done" /\ DateLE(start_date, end_date)) =>
        /\ Len(ranges) = MonthsTouched(start_date, end_date)
        /\ \A i \in 1..Len(ranges) : DtLE(ranges[i].start, ranges[i].end)
        /\ \A i \in 2..Len(ranges) :
               ranges[i].start = PlusOneSecond(ranges[i - 1].end)

\* a finished run over a range that crosses a December-to-January boundary
C2_Witness ==
    /\ wpc = "done"
    /\ DateLE(start_date, end_date)
    /\ start_date[1] < end_date[1]
    /\ Len(ranges) >= 3
    /\ \E i \in 2..Len(ranges) :
           ranges[i - 1].end[2] = 12 /\ ranges[i].start[2] = 1

\* ------------------------------------------------------------------ C3
\* record i of all_records is the first / the last with its (url, keyword)
FirstOfKey(i) == ~\E j \in 1..(i - 1) : SameKey(all_records[j], all_records[i])

LastOfKey(i) ==
    ~\E j \in (i + 1)..Len(all_records) : SameKey(all_records[j], all_records[i])

\* the written frame has one row per (url, keyword) of all_records
OneRowPerKey ==
    /\ \A i, j \in 1..Len(df) : i # j => ~SameKey(df[i], df[j])
    /\ \A i \in 1..Len(all_records) : \E j \in 1..Len(df) : SameKey(df[j], all_records[i])

DistinctIds(vs) == \A i, j \in 1..Len(vs) : i # j => vs[i].video_id # vs[j].video_id

\* C4: search_videos returns at most one video per video_id, each with the
\* keyword of its last discovery; fetch_comments_for_video is never called
\* twice with one video_id, and a run that reaches its end has called it
\* exactly once for every distinct video_id.
C4_UniqueVideosFetchedOnce ==
    /\ DistinctIds(videos)
    /\ ypc = "searched" =>
          /\ \A i \in 1..Len(all_videos) : \E j \in 1..Len(videos) :
                 videos[j].video_id = all_videos[i].video_id
          /\ \A j \in 1..Len(videos) : \E i \in 1..Len(all_videos) :
                 /\ all_videos[i] = videos[j]
                 /\ ~\E k \in (i + 1)..Len(all_videos) :
                        all_videos[k].video_id = videos[j].video_id
    /\ \A i, j \in 1..Len(fetch_calls) : i # j => fetch_calls[i] # fetch_calls[j]
    /\ ypc \in {"finish", "done"} =>
          fetch_calls = [i \in 1..Len(videos) |-> videos[i].video_id]

\* A finished run with two videos fetched, the first of which carries the
\* second keyword and the second the first keyword: the first video was found
\* before the second, so under the first keyword, and found again under the
\* second.
C4_Witness ==
    /\ ypc = "done"
    /\ Len(fetch_calls) = 2 /\ Len(videos) = 2
    /\ videos[1].keyword = KEYWORDS[2] /\ videos[2].keyword = KEYWORDS[1]

\* ------------------------------------------------------------ C5, C6
\* what the loop that just ended hands back, as the upstream's item ids
SearchReturned ==
    [i \in 1..collected |-> LastN(all_videos, collected)[i].video_id]

CommentsReturned == [i \in 1..Len(comments) |-> comments[i].comment_id]

\* a pagination loop ended without a failed request against an upstream that
\* returns a token on exactly upK pages
SearchRanOut == ypc = "kw_end" /\ upK # Endless /\ ~failed
CommentsRanOut == ypc = "video_end" /\ upK # Endless /\ ~failed

\* C5 as stated: against an upstream that returns a token on exactly K pages
\* the fetcher issues exactly K + 1 requests and returns the items of all
\* pages in page order, truncated to the cap.
C5_ExactlyKPlusOneRequests ==
    /\ SearchRanOut =>
          /\ reqs = upK + 1
          /\ SearchReturned = Truncate(offered, max_videos_per_keyword)
    /\ CommentsRanOut =>
          /\ reqs = upK + 1
          /\ CommentsReturned = Truncate(offered, max_comments_per_video)

\* C5 as amended: the fetcher issues at most K + 1 requests, and exactly K + 1
\* unless the cap is reached on an earlier page; it returns the items of the
\* pages it asked for (for comments: those that parse and lie in the date
\* range) in page order, truncated to the cap.
C5_KPlusOneUnlessCapped ==
    /\ (upK # Endless /\ ypc \in {"search", "kw_end", "fetch", "page_sleep", "video_end"})
          => reqs <= upK + 1
    /\ SearchRanOut =>
          /\ reqs = upK + 1 \/ collected >= max_videos_per_keyword
          /\ SearchReturned = Truncate(offered, max_videos_per_keyword)
    /\ CommentsRanOut =>
          /\ reqs = upK + 1 \/ fetched >= max_comments_per_video
          /\ CommentsReturned = Truncate(offered, max_comments_per_video)

\* a search that used all K + 1 pages and was offered more than the cap
C5_Witness ==
    /\ SearchRanOut /\ upK >= 1 /\ reqs = upK + 1
    /\ Len(offered) > max_videos_per_keyword
    /\ collected = max_videos_per_keyword

\* C6: when a request raises, the pagination loop stops without another
\* request, what the earlier pages gave is kept and returned, and the run goes
\* on with the next keyword or video.
C6_FailureStopsScopeOnly ==
    /\ [](failed => ypc \notin {"search", "fetch", "page_sleep", "crashed"})
    /\ []((failed /\ ypc = "kw_end") =>
             /\ SearchReturned = offered
             /\ Len(offered) = Len(all_videos) - Len(SelectSeq(all_videos,
                                    LAMBDA v : v.keyword # KEYWORDS[yk])))
    /\ []((failed /\ ypc = "video_end") => CommentsReturned = offered)
    /\ [][(failed /\ ypc = "kw_end") =>
             /\ all_videos' = all_videos
             /\ IF yk < Len(KEYWORDS)
                THEN ypc' = "search" /\ yk' = yk + 1 /\ next_page_token' = 0
                ELSE ypc' = "dedup"]_vars
    /\ [][(failed /\ ypc = "video_end") =>
             /\ all_comments' = all_comments \o comments
             /\ ypc' = "next_video" /\ yv' = yv + 1]_vars

\* the second request of the first keyword's search failed after the first
\* page gave a video
C6_Witness ==
    /\ ypc = "kw_end" /\ failed /\ yk = 1
    /\ reqs = 2 /\ Len(offered) >= 1 /\ SearchReturned = offered

\* ------------------------------------------------------------------ C7
\* C7: no exception propagates out of the collection loops, whatever the
\* upstream answers.
C7_NoExceptionPropagates == gpc # "crashed" /\ ypc # "crashed"

\* ------------------------------------------------------------------ C8
\* a published_at that does not parse as YYYYMMDDHHMMSS
Unparseable(s) == s = <<>> \/ ~Strptime(s).ok

\* C8: a comment whose publishedAt does not parse is in no output of
\* fetch_comments_for_video and does not count toward the cap; an article
\* whose published_at does not parse is written with published_at_iso null.
C8_ParseFailureAsymmetry ==
    /\ \A i \in 1..Len(comments) : FromIsoformatZ(comments[i].comment_published_at).ok
    /\ \A i \in 1..Len(all_comments) :
           FromIsoformatZ(all_comments[i].comment_published_at).ok
    /\ fetched = Len(comments)
    /\ (gpc = "done" /\ written) =>
          /\ \A i \in 1..Len(all_records) :
                 (Unparseable(all_records[i].published_at) /\ FirstOfKey(i)) =>
                     \E j \in 1..Len(df) :
                         /\ SameKey(df[j], all_records[i])
                         /\ df[j].published_at = all_records[i].published_at
                         /\ df[j].published_at_iso = None
          /\ \A j \in 1..Len(df) :
                 Unparseable(df[j].published_at) <=> df[j].published_at_iso = None

\* a written frame with an unparseable and a parseable published_at
C8_Witness ==
    /\ gpc = "done" /\ written
    /\ \E j \in 1..Len(df) :
           df[j].published_at = SeenBadMonth /\ df[j].published_at_iso = None
    /\ \E j \in 1..Len(df) : df[j].published_at_iso # None

InSearchLoop == ypc = "search"
InCommentLoop == ypc \in {"fetch", "page_sleep"}

\* C10 as stated: every pagination loop terminates, whatever the upstream does.
C10_EveryLoopTerminates ==
    /\ InSearchLoop ~> ~InSearchLoop
    /\ InCommentLoop ~> ~InCommentLoop

\* C10 as amended: every pagination loop terminates against an upstream that
\* omits the continuation token after finitely many pages, and a loop that
\* ended did so because the cap was reached, the response carried no token or
\* the request failed (or an exception of C7 propagated).
C10_TerminatesOnFiniteUpstream ==
    /\ (InSearchLoop /\ upK # Endless) ~> ~InSearchLoop
    /\ (InCommentLoop /\ upK # Endless) ~> ~InCommentLoop
    /\ [](ypc = "kw_end" =>
             collected >= max_videos_per_keyword \/ next_page_token = 0 \/ failed)
    /\ [](ypc = "video_end" =>
             fetched >= max_comments_per_video \/ next_page_token = 0 \/ failed)

\* a comment loop that ended on the last page of an upstream with MaxK token
\* pages, none of whose comments was kept
C10_Witness ==
    /\ ypc = "video_end" /\ upK = MaxK /\ reqs = MaxK + 1
    /\ comments = <<>> /\ ~failed /\ next_page_token = 0
====
